---- MODULE Spec2Model ----
(***************************************************************************)
(* Model of gtn_metadata_fetcher.py: the GTNMetadataFetcher client (five   *)
(* HTTP GET operations) and main(), the sequential reporter that calls     *)
(* four of them, prints a summary and maps every exception to exit 1.      *)
(*                                                                         *)
(* One run of main() is a linear sequence of steps; each action below is   *)
(* one step together with the except clauses it may fall into.  The remote *)
(* server is the only input: every fetch draws its response from a bounded *)
(* set (transport failure, or a status code with an invalid or a valid     *)
(* JSON body).                                                             *)
(***************************************************************************)
EXTENDS Integers, Sequences, FiniteSets, TLC

VARIABLES
    pc,          \* position of main(): the step about to run, or "done"
    out,         \* lines printed to standard output, in order
    err,         \* lines printed to the error stream, in order
    exitCode,    \* Running until the process ends, then 0 or 1
    issued,      \* one record per HTTP GET issued, in order
    topics,      \* the local `topics` of main() after line 63
    raised,      \* kind of the exception caught by main(), or "none"
    failStep,    \* step (1..5) in which the exception was raised, 0 if none
    jsonErrIsRequestException
                 \* whether the installed requests library derives the error
                 \* of response.json() from RequestException (2.27 and later)

vars == <<pc, out, err, exitCode, issued, topics, raised, failStep,
          jsonErrIsRequestException>>

----------------------------------------------------------------------------
(* Bounds of the model *)

MaxTopics == 6
MaxMaterials == 2

(* Program constants *)

ShowFirst == 5
BaseUrl == "https://training.galaxyproject.org/training-material/api"
Running == -1

----------------------------------------------------------------------------
(* JSON values as response.json() returns them.  An object keeps its       *)
(* entries in document order, as a Python dict does.                       *)

JNull == [t |-> "null"]
JBool(b) == [t |-> "bool", b |-> b]
JStr(s) == [t |-> "str", s |-> s]
JArr(items) == [t |-> "arr", items |-> items]
JObj(entries) == [t |-> "obj", entries |-> entries]
Entry(k, v) == [k |-> k, v |-> v]

(* Python operations main() applies to decoded values *)

IsDict(v) == v.t = "obj"

HasKey(d, k) == \E i \in 1..Len(d.entries) : d.entries[i].k = k

\* dict.get(k, default)
DictGet(d, k, default) ==
    IF HasKey(d, k)
    THEN d.entries[CHOOSE i \in 1..Len(d.entries) : d.entries[i].k = k].v
    ELSE default

\* len(v) is defined for dict, list and str; it raises TypeError otherwise
HasLen(v) == v.t \in {"obj", "arr", "str"}

PyLen(v) ==
    CASE v.t = "obj" -> Len(v.entries)
      [] v.t = "arr" -> Len(v.items)
      [] v.t = "str" -> Len(v.s)
      [] OTHER -> 0

\* truth value of v, as `if v:` and the conditional expression test it
Truthy(v) ==
    CASE v.t = "null" -> FALSE
      [] v.t = "bool" -> v.b
      [] v.t = "str" -> v.s # ""
      [] v.t = "arr" -> Len(v.items) > 0
      [] v.t = "obj" -> Len(v.entries) > 0
      [] OTHER -> TRUE

\* str(v), as an f-string formats v
PyStr(v) ==
    CASE v.t = "str" -> v.s
      [] v.t = "null" -> "None"
      [] v.t = "bool" -> (IF v.b THEN "True" ELSE "False")
      [] v.t = "arr" -> "[...]"
      [] v.t = "obj" -> "{...}"
      [] OTHER -> "?"

----------------------------------------------------------------------------
(* HTTP responses the server may give *)

StatusCodes == {200, 304, 404, 503}

TransportFailure == [net |-> "fail", status |-> 0, valid |-> FALSE, json |-> JNull]
HttpResponse(status, valid, json) ==
    [net |-> "ok", status |-> status, valid |-> valid, json |-> json]

ResponsesWith(jsonValues) ==
    {TransportFailure}
    \cup {HttpResponse(s, FALSE, JNull) : s \in StatusCodes}
    \cup {HttpResponse(s, TRUE, v) : s \in StatusCodes, v \in jsonValues}

(* The client, lines 18-51.  Every operation is: build the URL, GET it,    *)
(* raise_for_status(), return response.json().                             *)

\* response.raise_for_status(): requests raises HTTPError for 4xx and 5xx
RaiseForStatus4xxOnly(status) == 400 <= status /\ status < 500
RaiseForStatus(status) == 400 <= status /\ status < 600

Raise(kind) == [kind |-> kind, value |-> JNull]
Return(v) == [kind |-> "ok", value |-> v]

\* the three statements shared by the five operations
GetJson(resp) ==
    IF resp.net # "ok" THEN Raise("TransportError")
    ELSE IF RaiseForStatus(resp.status) THEN Raise("HttpStatusError")
    ELSE IF ~resp.valid THEN Raise("DecodeError")
    ELSE Return(resp.json)

Call(op, url, resp) ==
    [op |-> op, url |-> url, status |-> resp.status, result |-> GetJson(resp)]

fetch_topics(resp) ==
    Call("fetch_topics", BaseUrl \o "/topics.json", resp)
fetch_contributors(resp) ==
    Call("fetch_contributors", BaseUrl \o "/contributors.json", resp)
fetch_topic_details(topic_id, resp) ==
    Call("fetch_topic_details",
         BaseUrl \o "/topics/" \o PyStr(topic_id) \o ".json", resp)
fetch_tutorial(topic_id, tutorial_id, material_type, resp) ==
    Call("fetch_tutorial",
         BaseUrl \o "/topics/" \o PyStr(topic_id) \o "/tutorials/"
                 \o PyStr(tutorial_id) \o "/" \o PyStr(material_type) \o ".json",
         resp)
fetch_top_tools(resp) ==
    Call("fetch_top_tools", BaseUrl \o "/top-tools.json", resp)

\* the entry `issued` keeps of a call
Logged(call) ==
    [op |-> call.op, url |-> call.url, status |-> call.status,
     outcome |-> call.result.kind, value |-> call.result.value]

----------------------------------------------------------------------------
(* Printed lines *)

Line(kind, n, a, b) == [kind |-> kind, n |-> n, a |-> a, b |-> b]
Text(kind) == Line(kind, 0, "", "")

----------------------------------------------------------------------------
(* main(), lines 53-105 *)

\* except RequestException (line 100) against except Exception (line 103)
IsRequestExceptionNoHttp(exc) ==
    \/ exc = "TransportError"
    \/ exc = "DecodeError" /\ jsonErrIsRequestException
IsRequestException(exc) ==
    \/ exc \in {"TransportError", "HttpStatusError"}
    \/ exc = "DecodeError" /\ jsonErrIsRequestException

\* lines 101 and 104: the line written to sys.stderr
ErrLine(exc) ==
    IF IsRequestException(exc)
    THEN Line("Error fetching data", 0, exc, "")
    ELSE Line("Unexpected error", 0, exc, "")

\* lines 102 and 105: sys.exit(1) in either except clause
HandlerExitRequestOnly(exc) == IF IsRequestException(exc) THEN 1 ELSE 0
HandlerExit(exc) == 1

\* where control goes after a step: on, or out through an except clause
AfterStepSwallow(exc, next) == next
AfterStepRetry(exc, next) == IF exc = "none" THEN next ELSE pc
AfterStep(exc, next) == IF exc = "none" THEN next ELSE "done"

\* the end of a step: what it printed, then the except clauses if it raised
Finish(step, lines, exc, next) ==
    /\ out' = out \o lines
    /\ pc' = AfterStep(exc, next)
    /\ IF exc = "none"
       THEN UNCHANGED <<err, exitCode, raised, failStep>>
       ELSE /\ err' = Append(err, ErrLine(exc))
            /\ exitCode' = HandlerExit(exc)
            /\ raised' = exc
            /\ failStep' = step

\* line 63: .items() exists on a dict only
NormalizeRaises(v) == ~IsDict(v)

\* line 63: [v for k, v in topics.items()]
RECURSIVE Values(_)
Values(entries) ==
    IF entries = <<>> THEN <<>>
    ELSE <<Head(entries).v>> \o Values(Tail(entries))

NormalizeDropLast(v) ==
    IF v.entries = <<>> THEN <<>>
    ELSE Values(SubSeq(v.entries, 1, Len(v.entries) - 1))
Normalize(v) == Values(v.entries)

\* line 65: topics[:5]
Shown(ts) == SubSeq(ts, 1, IF Len(ts) < ShowFirst THEN Len(ts) ELSE ShowFirst)

\* line 66
TopicLine(topic) ==
    Line("topic", 0, PyStr(DictGet(topic, "name", JStr("N/A"))),
                     PyStr(DictGet(topic, "title", JStr("N/A"))))

\* lines 65-66: the loop prints until an element has no .get
RECURSIVE PrintTopics(_)
PrintTopics(ts) ==
    IF ts = <<>> THEN [lines |-> <<>>, exc |-> "none"]
    ELSE IF ~IsDict(Head(ts)) THEN [lines |-> <<>>, exc |-> "AttributeError"]
    ELSE LET rest == PrintTopics(Tail(ts))
         IN  [lines |-> <<TopicLine(Head(ts))>> \o rest.lines, exc |-> rest.exc]

\* lines 67-68
HasMoreOffByOne(ts) == Len(ts) >= ShowFirst
HasMore(ts) == Len(ts) > ShowFirst
MoreLine(ts) == Line("more", Len(ts) - ShowFirst, "", "")

\* lines 64-68, given the normalized list
ReportTopics(ts) ==
    LET p == PrintTopics(Shown(ts))
    IN  [lines |-> <<Line("found_topics", Len(ts), "", "")>> \o p.lines
                   \o (IF p.exc = "none" /\ HasMore(ts) THEN <<MoreLine(ts)>> ELSE <<>>),
         exc |-> p.exc]

\* lines 73 and 78: print(f"Found {len(x)} ...")
ReportCount(kind, v) ==
    IF HasLen(v)
    THEN [lines |-> <<Line(kind, PyLen(v), "", "")>>, exc |-> "none"]
    ELSE [lines |-> <<>>, exc |-> "TypeError"]

\* line 83
TopicId(ts) == DictGet(ts[1], "name", JNull)

\* line 83: .get on a first topic that is not a dict
FirstTopicRaises(ts) == ts # <<>> /\ ~IsDict(ts[1])

\* lines 81-84: whether the details of the first topic are fetched
FetchesDetailsIfPresent(ts) ==
    /\ ts # <<>>
    /\ IsDict(ts[1])
    /\ HasKey(ts[1], "name")
FetchesDetails(ts) ==
    /\ ts # <<>>
    /\ IsDict(ts[1])
    /\ Truthy(TopicId(ts))

\* line 95
HandsOnTextPresent(tutorial) ==
    IF HasKey(tutorial, "hands_on") THEN "Yes" ELSE "No"
HandsOnText(tutorial) ==
    IF Truthy(DictGet(tutorial, "hands_on", JNull)) THEN "Yes" ELSE "No"

\* line 92: tutorials[0] of a non-empty value.  A dict decoded from JSON has
\* string keys only, so the key 0 is missing; a str gives its first
\* character (the strings supplied as `materials` are one character long).
Subscript0Raises(v) == v.t = "obj"
Subscript0(v) == IF v.t = "arr" THEN v.items[1] ELSE JStr(v.s)

\* lines 93-95
TutorialLines(tutorial) ==
    <<Line("first_tutorial", 0, PyStr(DictGet(tutorial, "title", JStr("N/A"))), ""),
      Line("duration", 0, PyStr(DictGet(tutorial, "time_estimation", JStr("N/A"))), ""),
      Line("hands_on", 0, HandsOnText(tutorial), "")>>

\* lines 87-95, given the value fetch_topic_details returned
ReportDetails(topic_details) ==
    IF ~IsDict(topic_details) THEN [lines |-> <<>>, exc |-> "AttributeError"]
    ELSE LET tutorials == DictGet(topic_details, "materials", JArr(<<>>))
             count == <<Line("topic_has", PyLen(tutorials), "", "")>>
         IN  IF ~HasLen(tutorials) THEN [lines |-> <<>>, exc |-> "TypeError"]
             ELSE IF ~Truthy(tutorials) THEN [lines |-> count, exc |-> "none"]
             ELSE IF Subscript0Raises(tutorials) THEN [lines |-> count, exc |-> "KeyError"]
             ELSE IF ~IsDict(Subscript0(tutorials))
                  THEN [lines |-> count, exc |-> "AttributeError"]
             ELSE [lines |-> count \o TutorialLines(Subscript0(tutorials)),
                   exc |-> "none"]

----------------------------------------------------------------------------
(* What the server may answer to each request *)

Key(i) == "k" \o ToString(i)

\* a Topic as the catalog serves it; its `name` differs from its key
Topic(i) ==
    JObj(<<Entry("name", JStr("t" \o ToString(i))),
           Entry("title", JStr("Title " \o ToString(i)))>>)

\* Topic(i) with one irregularity
TopicVariants(i) ==
    { JObj(<<Entry("title", JStr("Title " \o ToString(i)))>>),
      JObj(<<Entry("name", JStr("")),
             Entry("title", JStr("Title " \o ToString(i)))>>),
      JObj(<<Entry("name", JStr("t" \o ToString(i)))>>),
      JStr("t" \o ToString(i)) }

\* topics.json with n regular entries
TopicsDoc(n) == [i \in 1..n |-> Entry(Key(i), Topic(i))]

\* the documents of at most MaxTopics entries, at most one of them irregular
TopicsDocs ==
    { JObj(TopicsDoc(n)) : n \in 0..MaxTopics }
    \cup { JObj([TopicsDoc(n) EXCEPT ![j] = Entry(Key(j), tv)]) :
             <<n, j, tv>> \in { x \in (1..MaxTopics) \X (1..MaxTopics)
                                       \X UNION {TopicVariants(i) : i \in 1..MaxTopics} :
                                  x[2] <= x[1] /\ x[3] \in TopicVariants(x[2]) } }

TopicsBodies == TopicsDocs \cup {JArr(<<Topic(1), Topic(2)>>), JNull}

ContributorsBodies ==
    { JObj(<<Entry("alice", JObj(<<>>)), Entry("bob", JObj(<<>>))>>),
      JNull }

TopToolsBodies ==
    { JObj(<<Entry("bwa", JArr(<<>>))>>), JBool(TRUE) }

Tutorial ==
    JObj(<<Entry("title", JStr("Intro")), Entry("time_estimation", JStr("1H")),
           Entry("hands_on", JBool(TRUE))>>)

Tutorials ==
    { Tutorial,
      JObj(<<Entry("title", JStr("Intro")), Entry("time_estimation", JStr("1H")),
             Entry("hands_on", JBool(FALSE))>>),
      JObj(<<Entry("title", JStr("Intro")), Entry("time_estimation", JStr("1H"))>>),
      JObj(<<Entry("title", JStr("Intro")), Entry("hands_on", JStr(""))>>),
      JObj(<<Entry("time_estimation", JStr("1H")), Entry("hands_on", JStr("external"))>>),
      JObj(<<Entry("hands_on", JNull)>>),
      JStr("Intro") }

\* `materials` of 1..MaxMaterials entries; the first one varies
MaterialsLists ==
    { JArr(<<first>> \o [i \in 1..(n - 1) |-> Tutorial]) :
        first \in Tutorials, n \in 1..MaxMaterials }

TopicDetailsBodies ==
    { JObj(<<Entry("name", JStr("t1"))>>),
      JObj(<<Entry("materials", JArr(<<>>))>>),
      JObj(<<Entry("materials", JNull)>>),
      JObj(<<Entry("materials", JObj(<<Entry("intro", Tutorial)>>))>>),
      JObj(<<Entry("materials", JStr("x"))>>),
      JArr(<<Tutorial>>) }
    \cup { JObj(<<Entry("materials", m)>>) : m \in MaterialsLists }

----------------------------------------------------------------------------
(* The steps of main() *)

\* lines 61-68
Step1BodyConditional(resp) ==
    LET call == fetch_topics(resp)
        pre == <<Text("fetching_topics")>>
    IN  IF call.result.kind # "ok"
        THEN [call |-> call, lines |-> pre, exc |-> call.result.kind, topics |-> topics]
        ELSE IF call.result.value.t \notin {"obj", "arr"}
        THEN [call |-> call, lines |-> pre, exc |-> "AttributeError", topics |-> topics]
        ELSE LET ts == IF IsDict(call.result.value)
                       THEN Normalize(call.result.value)
                       ELSE call.result.value.items
                 r == ReportTopics(ts)
             IN  [call |-> call, lines |-> pre \o r.lines, exc |-> r.exc, topics |-> ts]
Step1Body(resp) ==
    LET call == fetch_topics(resp)
        pre == <<Text("fetching_topics")>>
    IN  IF call.result.kind # "ok"
        THEN [call |-> call, lines |-> pre, exc |-> call.result.kind, topics |-> topics]
        ELSE IF NormalizeRaises(call.result.value)
        THEN [call |-> call, lines |-> pre, exc |-> "AttributeError", topics |-> topics]
        ELSE LET ts == Normalize(call.result.value)
                 r == ReportTopics(ts)
             IN  [call |-> call, lines |-> pre \o r.lines, exc |-> r.exc, topics |-> ts]

\* lines 71-73
Step2Body(resp) ==
    LET call == fetch_contributors(resp)
        pre == <<Text("fetching_contributors")>>
    IN  IF call.result.kind # "ok"
        THEN [call |-> call, lines |-> pre, exc |-> call.result.kind]
        ELSE LET r == ReportCount("found_contributors", call.result.value)
             IN  [call |-> call, lines |-> pre \o r.lines, exc |-> r.exc]

\* lines 76-78
Step3Body(resp) ==
    LET call == fetch_top_tools(resp)
        pre == <<Text("fetching_top_tools")>>
    IN  IF call.result.kind # "ok"
        THEN [call |-> call, lines |-> pre, exc |-> call.result.kind]
        ELSE LET r == ReportCount("found_tools", call.result.value)
             IN  [call |-> call, lines |-> pre \o r.lines, exc |-> r.exc]

\* lines 85-95
Step4Body(resp) ==
    LET call == fetch_topic_details(TopicId(topics), resp)
        pre == <<Line("fetching_details", 0, PyStr(TopicId(topics)), "")>>
    IN  IF call.result.kind # "ok"
        THEN [call |-> call, lines |-> pre, exc |-> call.result.kind]
        ELSE LET r == ReportDetails(call.result.value)
             IN  [call |-> call, lines |-> pre \o r.lines, exc |-> r.exc]

Init ==
    /\ pc = "start"
    /\ out = <<>>
    /\ err = <<>>
    /\ exitCode = Running
    /\ issued = <<>>
    /\ topics = <<>>
    /\ raised = "none"
    /\ failStep = 0
    /\ jsonErrIsRequestException \in BOOLEAN

\* lines 57-58
Start ==
    /\ pc = "start"
    /\ pc' = "topics"
    /\ out' = out \o <<Text("banner"), Text("rule")>>
    /\ UNCHANGED <<err, exitCode, issued, topics, raised, failStep,
                   jsonErrIsRequestException>>

Step1 ==
    /\ pc = "topics"
    /\ \E resp \in ResponsesWith(TopicsBodies) :
         LET b == Step1Body(resp)
         IN  /\ issued' = Append(issued, Logged(b.call))
             /\ topics' = b.topics
             /\ Finish(1, b.lines, b.exc, "contributors")
    /\ UNCHANGED jsonErrIsRequestException

Step2 ==
    /\ pc = "contributors"
    /\ \E resp \in ResponsesWith(ContributorsBodies) :
         LET b == Step2Body(resp)
         IN  /\ issued' = Append(issued, Logged(b.call))
             /\ Finish(2, b.lines, b.exc, "top_tools")
    /\ UNCHANGED <<topics, jsonErrIsRequestException>>

Step3 ==
    /\ pc = "top_tools"
    /\ \E resp \in ResponsesWith(TopToolsBodies) :
         LET b == Step3Body(resp)
         IN  /\ issued' = Append(issued, Logged(b.call))
             /\ Finish(3, b.lines, b.exc, "details")
    /\ UNCHANGED <<topics, jsonErrIsRequestException>>

\* lines 81-84 when nothing is fetched
Step4Skip ==
    /\ pc = "details"
    /\ ~FetchesDetails(topics)
    /\ Finish(4, <<>>, IF FirstTopicRaises(topics) THEN "AttributeError" ELSE "none",
              "final")
    /\ UNCHANGED <<issued, topics, jsonErrIsRequestException>>

\* lines 81-95
Step4Fetch ==
    /\ pc = "details"
    /\ FetchesDetails(topics)
    /\ \E resp \in ResponsesWith(TopicDetailsBodies) :
         LET b == Step4Body(resp)
         IN  /\ issued' = Append(issued, Logged(b.call))
             /\ Finish(4, b.lines, b.exc, "final")
    /\ UNCHANGED <<topics, jsonErrIsRequestException>>

\* lines 97-98, then main() returns and the interpreter exits with status 0
Step5 ==
    /\ pc = "final"
    /\ pc' = "done"
    /\ out' = out \o <<Text("success"), Text("save_hint")>>
    /\ exitCode' = 0
    /\ UNCHANGED <<err, issued, topics, raised, failStep, jsonErrIsRequestException>>

Next ==
    \/ Start
    \/ Step1
    \/ Step2
    \/ Step3
    \/ Step4Skip
    \/ Step4Fetch
    \/ Step5

Spec == Init /\ [][Next]_vars

\* main() is the only thread: a step that can run does run
FairSpec == Spec /\ WF_vars(Next)

TypeOK ==
    /\ pc \in {"start", "topics", "contributors", "top_tools", "details", "final", "done"}
    /\ exitCode \in {Running, 0, 1}
    /\ failStep \in 0..5
    /\ Len(err) <= 1

----------------------------------------------------------------------------
(* Vocabulary of the properties *)

Ops == [i \in 1..Len(issued) |-> issued[i].op]

FetchOrder == <<"fetch_topics", "fetch_contributors", "fetch_top_tools",
                "fetch_topic_details">>

IsPrefix(s, t) == Len(s) <= Len(t) /\ SubSeq(t, 1, Len(s)) = s

StepOfOp(op) ==
    CASE op = "fetch_topics" -> 1
      [] op = "fetch_contributors" -> 2
      [] op = "fetch_top_tools" -> 3
      [] op = "fetch_topic_details" -> 4
      [] OTHER -> 6

StepOfLine(kind) ==
    CASE kind \in {"banner", "rule"} -> 0
      [] kind \in {"fetching_topics", "found_topics", "topic", "more"} -> 1
      [] kind \in {"fetching_contributors", "found_contributors"} -> 2
      [] kind \in {"fetching_top_tools", "found_tools"} -> 3
      [] kind \in {"fetching_details", "topic_has", "first_tutorial", "duration",
                   "hands_on"} -> 4
      [] OTHER -> 5

Printed(kind) == \E i \in 1..Len(out) : out[i].kind = kind
LinesOf(kind) == SelectSeq(out, LAMBDA l : l.kind = kind)

FetchErrors == {"TransportError", "HttpStatusError", "DecodeError"}
FieldErrors == {"AttributeError", "TypeError", "KeyError"}

Issued(op) == \E i \in 1..Len(issued) : issued[i].op = op
CallOf(op) == issued[CHOOSE i \in 1..Len(issued) : issued[i].op = op]

----------------------------------------------------------------------------
(* C1: a failure raised during step k stops main(): no fetch and no output *)
(* of a later step, no success line, exactly one line on the error stream, *)
(* exit status 1; what was printed before stays printed.                   *)

C1_Stopped ==
    raised # "none" =>
        /\ failStep \in 1..4
        /\ pc = "done"
        /\ exitCode = 1
        /\ Len(err) = 1
        /\ \A i \in 1..Len(issued) : StepOfOp(issued[i].op) <= failStep
        /\ \A i \in 1..Len(out) : StepOfLine(out[i].kind) <= failStep
        /\ ~Printed("success")

C1_OutputKept ==
    /\ IsPrefix(out, out')
    /\ IsPrefix(err, err')
    /\ raised # "none" => UNCHANGED <<out, err, issued, exitCode>>

C1_FailureAborts == []C1_Stopped /\ [][C1_OutputKept]_vars

C1_Witness ==
    /\ failStep = 3
    /\ raised = "TypeError"
    /\ Printed("found_contributors")
    /\ Printed("topic")
    /\ exitCode = 1

(* C2: fetches are issued in the order topics, contributors, top-tools,    *)
(* topic-details, each at most once, a later one only after every earlier  *)
(* one returned, none after a failure, and fetch_tutorial never.           *)

C2_Order ==
    /\ IsPrefix(Ops, FetchOrder)
    /\ \A i, j \in 1..Len(issued) : i # j => issued[i].op # issued[j].op
    /\ \A i \in 1..Len(issued) : i < Len(issued) => issued[i].outcome = "ok"
    /\ ~Issued("fetch_tutorial")

C2_NoRetry == raised # "none" => issued' = issued

C2_StrictSequence == []C2_Order /\ [][C2_NoRetry]_vars

C2_Witness ==
    /\ Ops = FetchOrder
    /\ issued[4].outcome = "TransportError"
    /\ pc = "done"

(* C3: a response with status 400-599 makes each of the five operations    *)
(* fail with HttpStatusError without returning the body, and makes main()  *)
(* exit with status 1 and an "Error fetching data" line; any other status  *)
(* goes on to decode the body.                                             *)

Is2xx(status) == 200 <= status /\ status <= 299
Is4xx5xx(status) == 400 <= status /\ status <= 599
GotResponse(call) == call.status # 0

ClientCalls(resp) ==
    { fetch_topics(resp), fetch_contributors(resp), fetch_top_tools(resp),
      fetch_topic_details(JStr("t1"), resp),
      fetch_tutorial(JStr("t1"), JStr("intro"), JStr("tutorial"), resp) }

C3_ClientFails(failing(_)) ==
    \A resp \in ResponsesWith(ContributorsBodies) : \A call \in ClientCalls(resp) :
        (resp.net = "ok" /\ failing(resp.status)) =>
            call.result = Raise("HttpStatusError")

C3_MainFails(failing(_)) ==
    \A i \in 1..Len(issued) :
        (GotResponse(issued[i]) /\ failing(issued[i].status)) =>
            /\ issued[i].outcome = "HttpStatusError"
            /\ issued[i].value = JNull
            /\ pc = "done"
            /\ exitCode = 1
            /\ Len(err) = 1
            /\ ~Printed("success")

C3_OtherStatusDecodes ==
    \A i \in 1..Len(issued) :
        (GotResponse(issued[i]) /\ ~Is4xx5xx(issued[i].status)) =>
            issued[i].outcome \in {"ok", "DecodeError"}

\* the claim as stated: every status outside 200-299 fails the operation
C3_AnyNon2xxFails ==
    LET Non2xx(status) == ~Is2xx(status)
    IN  C3_MainFails(Non2xx)

C3_ErrorStatusFails ==
    /\ C3_ClientFails(Is4xx5xx)
    /\ C3_MainFails(Is4xx5xx)
    /\ \A i \in 1..Len(issued) :
          issued[i].outcome = "HttpStatusError" => err[1].kind = "Error fetching data"
    /\ C3_OtherStatusDecodes

C3_Witness ==
    /\ Len(issued) = 2
    /\ issued[2].status = 503
    /\ issued[2].outcome = "HttpStatusError"
    /\ exitCode = 1
    /\ err[1].kind = "Error fetching data"

(* C4: main() reports "Error fetching data" exactly for the exceptions     *)
(* that are RequestExceptions: TransportError, HttpStatusError, and        *)
(* DecodeError when the requests library derives it from RequestException; *)
(* everything else is "Unexpected error"; both exit with status 1.         *)

\* the claim as stated: DecodeError is always an "Unexpected error"
C4_OnlyTransportAndStatus ==
    raised # "none" =>
        /\ exitCode = 1
        /\ err[1].kind = "Error fetching data"
              <=> raised \in {"TransportError", "HttpStatusError"}
        /\ err[1].kind = "Unexpected error"
              <=> raised \notin {"TransportError", "HttpStatusError"}

C4_Classification ==
    raised # "none" =>
        /\ exitCode = 1
        /\ Len(err) = 1
        /\ err[1].kind \in {"Error fetching data", "Unexpected error"}
        /\ err[1].kind = "Error fetching data"
              <=> \/ raised \in {"TransportError", "HttpStatusError"}
                  \/ raised = "DecodeError" /\ jsonErrIsRequestException
        /\ raised \in FieldErrors => err[1].kind = "Unexpected error"
        /\ (raised = "DecodeError" /\ ~jsonErrIsRequestException)
              => err[1].kind = "Unexpected error"

C4_Witness ==
    /\ raised = "DecodeError"
    /\ jsonErrIsRequestException
    /\ err = <<Line("Error fetching data", 0, "DecodeError", "")>>
    /\ exitCode = 1

(* C5: every run ends, either with exit status 0, the success line and no  *)
(* error line, or with exit status 1, an error line and no success line;   *)
(* status 0 exactly when every issued fetch succeeded and no field access  *)
(* failed.                                                                 *)

C5_Outcome ==
    /\ pc # "done" => exitCode = Running
    /\ pc = "done" =>
        /\ \/ exitCode = 0 /\ Printed("success") /\ err = <<>>
           \/ exitCode = 1 /\ Len(err) = 1 /\ ~Printed("success")
        /\ exitCode = 0 <=> /\ \A i \in 1..Len(issued) : issued[i].outcome = "ok"
                            /\ raised \notin FieldErrors

C5_TwoOutcomes == <>(pc = "done") /\ []C5_Outcome

C5_Witness ==
    /\ pc = "done"
    /\ exitCode = 0
    /\ Len(issued) = 4
    /\ Printed("hands_on")
    /\ Printed("success")

(* C6: the normalized topics are the values of the mapping fetch_topics    *)
(* returned, as many as its entries and in their order, without the keys.  *)

C6_ValuesInOrder ==
    (Issued("fetch_topics") /\ CallOf("fetch_topics").outcome = "ok"
        /\ IsDict(CallOf("fetch_topics").value)) =>
        LET mapping == CallOf("fetch_topics").value.entries
        IN  /\ Len(topics) = Len(mapping)
            /\ \A i \in 1..Len(mapping) : topics[i] = mapping[i].v
            /\ \A i \in 1..Len(topics) : topics[i] # JStr(mapping[i].k)

C6_Witness ==
    /\ Len(topics) = 3
    /\ topics[1] # topics[2]
    /\ topics[2] # topics[3]
    /\ CallOf("fetch_topics").value.entries[3].v = topics[3]
    /\ CallOf("fetch_topics").value.entries[3].k = "k3"

(* C7: for n normalized topics main() prints the count n, then the first   *)
(* min(n, 5) topics in order, each with its name and title or "N/A" for a  *)
(* missing one, and the line "... and n-5 more" exactly when n > 5; a      *)
(* missing field never makes the step fail.                                *)

Min(a, b) == IF a < b THEN a ELSE b

FieldOrNA(topic, field) ==
    IF \E i \in 1..Len(topic.entries) : topic.entries[i].k = field
    THEN LET i == CHOOSE j \in 1..Len(topic.entries) : topic.entries[j].k = field
         IN  topic.entries[i].v.s
    ELSE "N/A"

Step1Reported ==
    /\ Issued("fetch_topics")
    /\ CallOf("fetch_topics").outcome = "ok"
    /\ IsDict(CallOf("fetch_topics").value)

C7_TopicsReport ==
    Step1Reported =>
        LET n == Len(topics)
            m == Min(n, 5)
        IN  /\ out[4] = Line("found_topics", n, "", "")
            /\ Len(LinesOf("found_topics")) = 1
            /\ (\A i \in 1..m : IsDict(topics[i])) =>
                  /\ failStep # 1
                  /\ Len(LinesOf("topic")) = m
                  /\ \A i \in 1..m :
                        out[4 + i] = Line("topic", 0, FieldOrNA(topics[i], "name"),
                                                      FieldOrNA(topics[i], "title"))
                  /\ Printed("more") <=> n > 5
                  /\ n > 5 => out[5 + m] = Line("more", n - 5, "", "")
                  /\ Len(LinesOf("more")) <= 1

C7_Witness ==
    /\ Len(topics) = 6
    /\ IsDict(topics[2])
    /\ ~HasKey(topics[2], "title")
    /\ out[6] = Line("topic", 0, "t2", "N/A")
    /\ out[10] = Line("more", 1, "", "")
    /\ pc = "contributors"

(* C8: fetch_topic_details is issued exactly when steps 1-3 succeeded, the *)
(* topics are not empty and the first topic's `name` is present and not    *)
(* empty; it is issued for that name, not for the mapping key.  After an   *)
(* empty mapping main() prints the count 0, goes on to the contributors    *)
(* and top-tools steps, fetches no details and, those steps succeeding,    *)
(* ends with status 0.                                                     *)

Step4Decided == pc \in {"final", "done"}
Steps123Succeeded == Len(issued) >= 3 /\ failStep \notin {1, 2, 3}

\* the claim as stated: a present `name` is enough
C8_IssuedIffNamePresent ==
    Step4Decided =>
        (Issued("fetch_topic_details")
            <=> /\ Steps123Succeeded
                /\ topics # <<>>
                /\ HasKey(topics[1], "name"))

C8_EmptyMapping ==
    (Step1Reported /\ CallOf("fetch_topics").value.entries = <<>>) =>
        /\ topics = <<>>
        /\ out[4] = Line("found_topics", 0, "", "")
        /\ failStep # 1
        /\ pc # "done" \/ Issued("fetch_contributors")
        /\ ~Issued("fetch_topic_details")
        /\ failStep \notin {4, 5}
        /\ (pc = "done" /\ failStep = 0) =>
              /\ Ops = SubSeq(FetchOrder, 1, 3)
              /\ exitCode = 0
              /\ err = <<>>

C8_DetailsFetch ==
    /\ Step4Decided =>
          (Issued("fetch_topic_details")
              <=> /\ Steps123Succeeded
                  /\ topics # <<>>
                  /\ HasKey(topics[1], "name")
                  /\ FieldOrNA(topics[1], "name") # "")
    /\ Issued("fetch_topic_details") =>
          LET mapping == CallOf("fetch_topics").value.entries
          IN  /\ CallOf("fetch_topic_details").url
                    = BaseUrl \o "/topics/" \o FieldOrNA(topics[1], "name") \o ".json"
              /\ CallOf("fetch_topic_details").url
                    # BaseUrl \o "/topics/" \o mapping[1].k \o ".json"
    /\ C8_EmptyMapping

C8_Witness ==
    /\ Issued("fetch_topic_details")
    /\ CallOf("fetch_topics").value.entries[1].k = "k1"
    /\ CallOf("fetch_topic_details").url = BaseUrl \o "/topics/t1.json"
    /\ CallOf("fetch_topic_details").outcome = "ok"

C8_WitnessEmpty ==
    /\ Step1Reported
    /\ topics = <<>>
    /\ pc = "done"
    /\ exitCode = 0
    /\ Len(issued) = 3

(* C9: when fetch_topic_details returns a mapping whose `materials` is     *)
(* absent or a sequence, main() prints the length of that sequence (0 when *)
(* absent); when the sequence starts with a Tutorial mapping the title,    *)
(* duration and hands-on lines are printed, otherwise none of them is, and *)
(* the hands-on line says "Yes" exactly when `hands_on` is present and     *)
(* truthy.                                                                 *)

Materials(topic_details) ==
    IF \E i \in 1..Len(topic_details.entries) : topic_details.entries[i].k = "materials"
    THEN LET i == CHOOSE j \in 1..Len(topic_details.entries) :
                      topic_details.entries[j].k = "materials"
         IN  topic_details.entries[i].v
    ELSE JArr(<<>>)

HandsOnTruthy(tutorial) ==
    \E i \in 1..Len(tutorial.entries) :
        /\ tutorial.entries[i].k = "hands_on"
        /\ tutorial.entries[i].v \notin {JNull, JBool(FALSE), JStr("")}

C9_DetailsReport ==
    (Issued("fetch_topic_details") /\ CallOf("fetch_topic_details").outcome = "ok"
        /\ IsDict(CallOf("fetch_topic_details").value)
        /\ Materials(CallOf("fetch_topic_details").value).t = "arr") =>
        LET tutorials == Materials(CallOf("fetch_topic_details").value).items
            at == CHOOSE i \in 1..Len(out) : out[i].kind = "fetching_details"
        IN  /\ out[at + 1] = Line("topic_has", Len(tutorials), "", "")
            /\ tutorials = <<>> =>
                  /\ ~Printed("first_tutorial") /\ ~Printed("duration")
                  /\ ~Printed("hands_on")
                  /\ failStep = 0
            /\ (tutorials # <<>> /\ IsDict(tutorials[1])) =>
                  /\ failStep = 0
                  /\ out[at + 2] = Line("first_tutorial", 0,
                                        FieldOrNA(tutorials[1], "title"), "")
                  /\ out[at + 3] = Line("duration", 0,
                                        FieldOrNA(tutorials[1], "time_estimation"), "")
                  /\ out[at + 4].kind = "hands_on"
                  /\ out[at + 4].a \in {"Yes", "No"}
                  /\ out[at + 4].a = "Yes" <=> HandsOnTruthy(tutorials[1])

C9_Witness ==
    /\ Issued("fetch_topic_details")
    /\ CallOf("fetch_topic_details").outcome = "ok"
    /\ IsDict(CallOf("fetch_topic_details").value)
    /\ Materials(CallOf("fetch_topic_details").value).t = "arr"
    /\ Len(Materials(CallOf("fetch_topic_details").value).items) = 2
    /\ IsDict(Materials(CallOf("fetch_topic_details").value).items[1])
    /\ HasKey(Materials(CallOf("fetch_topic_details").value).items[1], "hands_on")
    /\ LinesOf("hands_on") = <<Line("hands_on", 0, "No", "")>>
    /\ LinesOf("duration") = <<Line("duration", 0, "1H", "")>>

(* C10: when fetch_topics returns a value that is not a mapping, main()    *)
(* fails in step 1 before printing a count, issues no other fetch, writes  *)
(* "Unexpected error" and exits with status 1.                             *)

C10_NonMappingFails ==
    (Issued("fetch_topics") /\ CallOf("fetch_topics").outcome = "ok"
        /\ ~IsDict(CallOf("fetch_topics").value)) =>
        /\ pc = "done"
        /\ failStep = 1
        /\ topics = <<>>
        /\ ~Printed("found_topics")
        /\ ~Printed("topic")
        /\ Ops = <<"fetch_topics">>
        /\ Len(err) = 1
        /\ err[1].kind = "Unexpected error"
        /\ exitCode = 1

C10_Witness ==
    /\ Issued("fetch_topics")
    /\ CallOf("fetch_topics").outcome = "ok"
    /\ CallOf("fetch_topics").value = JArr(<<Topic(1), Topic(2)>>)
    /\ raised = "AttributeError"
    /\ exitCode = 1

====
